---------------------------- MODULE Spec2Model ----------------------------
(***************************************************************************)
(* depload (src/depload.cpp): the loaded-module registry, load(), the      *)
(* session-restore loop of run() and the import/export resolution sweep    *)
(* (clearcmts, mapinexports, importmap).                                   *)
(*                                                                         *)
(* Text is modelled as C does: a character is a one-character string, a    *)
(* buffer is a sequence of characters that holds its NUL terminators, and  *)
(* a NULL pointer is the empty sequence (a buffer always holds a NUL).     *)
(* What the host stores (segment names, segment comments, repeatable       *)
(* comments) is the text before the terminator; an empty comment is no     *)
(* comment, as in the host.                                                *)
(***************************************************************************)
EXTENDS Integers, Sequences, FiniteSets

VARIABLES registry, segs, cmts, funcs, imports,
          pc, depi, fi, fname, trunc,
          written, lastOp, lastLoad, lastRestore,
          firstReg, everLoaded, segsrc

vars == <<registry, segs, cmts, funcs, imports, pc, depi, fi, fname, trunc,
          written, lastOp, lastLoad, lastRestore, firstReg, everLoaded, segsrc>>

----------------------------------------------------------------------------
(* Bounds of the model *)

\* segments the session may hold (load is cut off beyond it)
MaxSegs == 3
\* segments one load_nonbinary_file call may create
MaxNewSegs == 2
\* functions in the function table of the sweep specification
MaxFuncs == 2

----------------------------------------------------------------------------
(* C text *)

NUL == "NUL"
NULL == << >>

\* the character codes the code compares ('0'..'9' and their neighbours)
Ord(c) ==
    CASE c = "/" -> 47
      [] c = "0" -> 48
      [] c = "1" -> 49
      [] c = "2" -> 50
      [] c = "3" -> 51
      [] c = "4" -> 52
      [] c = "7" -> 55
      [] c = "9" -> 57
      [] c = ":" -> 58
      [] c = "@" -> 64
      [] c = "A" -> 65
      [] c = "B" -> 66
      [] c = "F" -> 70
      [] c = "\\" -> 92
      [] c = "_" -> 95
      [] c = "a" -> 97
      [] c = "b" -> 98
      [] c = "d" -> 100
      [] c = "f" -> 102
      [] c = "o" -> 111
      [] c = "r" -> 114
      [] c = "x" -> 120
      [] OTHER -> 0

\* a C string literal: the text and its terminator
C(s) == s \o <<NUL>>

strlen(buf) ==
    CHOOSE n \in 0..(Len(buf) - 1) :
        buf[n + 1] = NUL /\ \A k \in 1..n : buf[k] # NUL

\* the text of a buffer: what %s prints, what the host stores
CStr(buf) == SubSeq(buf, 1, strlen(buf))

\* strrchr: 1-based place of the last c in the text of buf, 0 for NULL
strrchr(buf, c) ==
    LET hits == {k \in 1..strlen(buf) : buf[k] = c}
    IN IF hits = {} THEN 0 ELSE CHOOSE k \in hits : \A j \in hits : j <= k

\* strcmp: 0 when the two texts are equal
strcmp(a, b) == IF CStr(a) = CStr(b) THEN 0 ELSE 1

\* strncmp: 0 when the two texts agree on their first n characters
\* (a text that ends earlier differs at its terminator)
strncmp(a, b, n) ==
    LET la == IF strlen(a) < n THEN strlen(a) + 1 ELSE n
        lb == IF strlen(b) < n THEN strlen(b) + 1 ELSE n
    IN IF SubSeq(a, 1, la) = SubSeq(b, 1, lb) THEN 0 ELSE 1

\* memcmp over n bytes, both buffers at least n long
memcmp(a, b, n) == IF SubSeq(a, 1, n) = SubSeq(b, 1, n) THEN 0 ELSE 1

\* tolower on the letters in use
Lower(c) ==
    CASE c = "A" -> "a"
      [] c = "B" -> "b"
      [] c = "F" -> "f"
      [] OTHER -> c

\* strnicmp
strnicmp(a, b, n) ==
    LET la == IF strlen(a) < n THEN strlen(a) + 1 ELSE n
        lb == IF strlen(b) < n THEN strlen(b) + 1 ELSE n
    IN IF la = lb /\ \A k \in 1..la : Lower(a[k]) = Lower(b[k]) THEN 0 ELSE 1

\* sprintf_s(buf, size, ...): the formatted text and its terminator, or the
\* empty string when it does not fit in size bytes
sprintf_s(size, text) == IF Len(text) + 1 > size THEN C(<< >>) ELSE C(text)

QMAXPATH == 260
MAXSTR == 1024


----------------------------------------------------------------------------
(* Text the code writes and reads *)

\* "\ndep: "
DepPrefix == <<"\n", "d", "e", "p", ":", " ">>
\* "original"
Original == <<"o", "r", "i", "g", "i", "n", "a", "l">>
\* "import -> "
ImportArrow == <<"i", "m", "p", "o", "r", "t", " ", "-", ">", " ">>

----------------------------------------------------------------------------
(* The loaded-module registry: loadedbase/loadedend, a singly linked list   *)
(* of nodes, each holding its filename bytes (terminator included)          *)

\* faulty variant: only the first node is compared
isloaded_first(reg, filename) ==
    IF Len(reg) >= 1 /\ strcmp(filename, reg[1]) = 0 THEN 1 ELSE 0

isloaded(reg, filename) ==
    IF \E i \in 1..Len(reg) : strcmp(filename, reg[i]) = 0 THEN 1 ELSE 0

\* faulty variant: the node is linked at the head
append_node_front(reg, node) == <<node>> \o reg

\* loadedend->next = ptr; loadedend = ptr
append_node(reg, node) == Append(reg, node)

----------------------------------------------------------------------------
(* load() *)

\* faulty variant: the format has no trailing newline
fmt_dep_nonl(filename) ==
    sprintf_s(QMAXPATH, DepPrefix \o CStr(filename))

\* sprintf_s(segn, sizeof(segn), "\ndep: %s\n", filename)
fmt_dep(filename) ==
    sprintf_s(QMAXPATH, DepPrefix \o CStr(filename) \o <<"\n">>)

\* one turn of the segment loop of load(): a segment that has a comment is
\* left alone, and so is every segment when filename holds no backslash
load_seg(seg, filename) ==
    IF seg.cmt # << >> THEN seg
    ELSE LET file == strrchr(filename, "\\")
         IN IF file = 0 THEN seg
            ELSE [name |-> CStr(SubSeq(filename, file + 1, Len(filename))),
                  cmt  |-> CStr(fmt_dep(filename))]

\* faulty variant: the file handle is not closed when malloc fails
load_cleanup_leak(stage) ==
    CASE stage = "build"  -> <<"close_linput">>
      [] stage = "malloc" -> <<"free_loaders_list">>
      [] stage = "import" -> <<"free", "free_loaders_list", "close_linput">>
      [] stage = "done"   -> <<"free_loaders_list", "close_linput">>

\* the releases load() makes on leaving at each stage
load_cleanup(stage) ==
    CASE stage = "build"  -> <<"close_linput">>
      [] stage = "malloc" -> <<"free_loaders_list", "close_linput">>
      [] stage = "import" -> <<"free", "free_loaders_list", "close_linput">>
      [] stage = "done"   -> <<"free_loaders_list", "close_linput">>

\* faulty variant: the path is registered although the load failed
load_fail_ghost(reg, sg, filename, ev) ==
    [ret |-> -1, reg |-> Append(reg, filename), segs |-> sg, ev |-> ev]

\* a return -1 of load(): nothing of the session is touched
load_fail(reg, sg, filename, ev) ==
    [ret |-> -1, reg |-> reg, segs |-> sg, ev |-> ev]

\* the segments load_nonbinary_file creates: named by the loader, no comment
NewSeg == [name |-> <<".", "t">>, cmt |-> << >>]
NewSegs(n) == [i \in 1..n |-> NewSeg]

\* load(filename) with the host's answers: host.fail names the call that
\* fails ("none": all succeed), host.nsegs the segments the import creates.
\* ev lists the resources taken and released, in order.
load(reg, sg, filename, host) ==
    IF isloaded(reg, filename) = 1
    THEN [ret |-> -2, reg |-> reg, segs |-> sg, ev |-> << >>]
    ELSE IF host.fail = "open"
    THEN load_fail(reg, sg, filename, << >>)
    ELSE IF host.fail = "build"
    THEN load_fail(reg, sg, filename,
                   <<"open_linput">> \o load_cleanup("build"))
    ELSE IF host.fail = "malloc"
    THEN load_fail(reg, sg, filename,
                   <<"open_linput", "build_loaders_list">>
                       \o load_cleanup("malloc"))
    ELSE IF host.fail = "import"
    THEN load_fail(reg, sg, filename,
                   <<"open_linput", "build_loaders_list", "malloc">>
                       \o load_cleanup("import"))
    ELSE LET fnlen == strlen(filename) + 1
             sg1   == sg \o NewSegs(host.nsegs)
             sg2   == [i \in 1..Len(sg1) |-> load_seg(sg1[i], filename)]
         IN [ret  |-> 0,
             reg  |-> append_node(reg, SubSeq(filename, 1, fnlen)),
             segs |-> sg2,
             ev   |-> <<"open_linput", "build_loaders_list", "malloc">>
                          \o load_cleanup("done") \o <<"link">>]

----------------------------------------------------------------------------
(* run(): the session-restore loop *)

\* one turn of the loop for segment i; ok is malloc's answer
restore_seg(st, i, ok) ==
    LET cmt == st.segs[i].cmt
    IN IF cmt = << >>
       THEN [reg  |-> st.reg,
             segs |-> [st.segs EXCEPT
                         ![i].cmt = DepPrefix \o Original \o <<"\n">>]]
       ELSE LET fnlen == Len(cmt)
                buf   == C(cmt)
            IN IF fnlen < 6 \/ memcmp(buf, DepPrefix, 6) # 0
               THEN st
               ELSE LET n    == fnlen - 6
                        buf2 == [buf EXCEPT ![6 + n] = NUL]
                        c2   == SubSeq(buf2, 7, Len(buf2))
                    IN IF (n = 9 /\ memcmp(c2, C(Original), 9) = 0)
                          \/ isloaded(st.reg, c2) = 1
                       THEN st
                       ELSE IF ~ok
                       THEN st
                       ELSE [reg  |-> append_node(st.reg, SubSeq(c2, 1, n)),
                             segs |-> st.segs]

RECURSIVE restore_loop(_, _, _)
restore_loop(st, i, ok) ==
    IF i > Len(st.segs) THEN st
    ELSE restore_loop(restore_seg(st, i, ok[i]), i + 1, ok)

----------------------------------------------------------------------------
(* enumcb(): the file enumeration callback of the dependency scan *)

enumcb(file, ud) ==
    LET sb == strrchr(file, "\\")
    IN IF sb = 0 THEN 0
       ELSE IF strnicmp(SubSeq(file, sb + 1, Len(file)), ud, strlen(ud)) = 0
            THEN 1 ELSE 0

----------------------------------------------------------------------------
(* clearcmts(), mapinexports(), importmap() *)

\* the host's set_cmt(ea, text, true): the repeatable comment is replaced
set_cmt(c, ea, text) == [c EXCEPT ![ea] = CStr(text)]

\* importenum(): the callback of clearcmts()
importenum(ea, name, c) == set_cmt(c, ea, C(<< >>))

RECURSIVE clear_names(_, _, _)
clear_names(ents, k, c) ==
    IF k > Len(ents) THEN c
    ELSE clear_names(ents, k + 1, importenum(ents[k].ea, ents[k].name, c))

\* clearcmts(): enum_import_names(i, importenum, NULL) for every module
RECURSIVE clearcmts(_, _, _)
clearcmts(mods, i, c) ==
    IF i > Len(mods) THEN c
    ELSE clearcmts(mods, i + 1, clear_names(mods[i].ents, 1, c))

\* faulty variant: the comment is formatted without de-truncating
importmap_base(ea, name, st) ==
    IF name = NULL THEN st
    ELSE LET len == strlen(st.name)
         IN IF strncmp(name, st.name, len) = 0
            THEN LET comment == sprintf_s(MAXSTR, ImportArrow \o CStr(st.name))
                 IN [st EXCEPT
                       !.cmts = set_cmt(st.cmts, ea, comment),
                       !.log  = st.log \cup
                                  {[ea |-> ea, fi |-> st.fi,
                                    text |-> CStr(comment)]}]
            ELSE st

\* faulty variant: an import that has a comment keeps it
importmap_first(ea, name, st) ==
    IF name = NULL THEN st
    ELSE LET len == strlen(st.name)
         IN IF strncmp(name, st.name, len) = 0
            THEN LET detrunc == [st.name EXCEPT ![len + 1] = "_"]
                     comment == sprintf_s(MAXSTR, ImportArrow \o CStr(detrunc))
                     retrunc == [detrunc EXCEPT ![len + 1] = NUL]
                 IN [st EXCEPT
                       !.name = retrunc,
                       !.cmts = IF st.cmts[ea] # << >> THEN st.cmts
                                ELSE set_cmt(st.cmts, ea, comment),
                       !.log  = st.log \cup
                                  {[ea |-> ea, fi |-> st.fi,
                                    text |-> CStr(comment)]}]
            ELSE st

\* importmap(ea, name, ord, param): st.name is imname->name, the shared
\* buffer fname; st.log records every set_cmt call made (with st.fi, the
\* function being mapped)
importmap(ea, name, st) ==
    IF name = NULL THEN st
    ELSE LET len == strlen(st.name)
         IN IF strncmp(name, st.name, len) = 0
            THEN LET detrunc == [st.name EXCEPT ![len + 1] = "_"]
                     comment == sprintf_s(MAXSTR, ImportArrow \o CStr(detrunc))
                     retrunc == [detrunc EXCEPT ![len + 1] = NUL]
                 IN [st EXCEPT
                       !.name = retrunc,
                       !.cmts = set_cmt(st.cmts, ea, comment),
                       !.log  = st.log \cup
                                  {[ea |-> ea, fi |-> st.fi,
                                    text |-> CStr(comment)]}]
            ELSE st

\* the host's enum_import_names(i2, importmap, &imname)
RECURSIVE enum_import_names(_, _, _)
enum_import_names(ents, k, st) ==
    IF k > Len(ents) THEN st
    ELSE enum_import_names(ents, k + 1,
                           importmap(ents[k].ea, ents[k].name, st))

\* for(i2 = 0; i2 < imports; i2++) enum_import_names(...)
RECURSIVE map_modules(_, _, _)
map_modules(mods, i2, st) ==
    IF i2 > Len(mods) THEN st
    ELSE map_modules(mods, i2 + 1, enum_import_names(mods[i2].ents, 1, st))

\* while(*ptr2): the place of the terminator when every character from k on
\* is a digit, 0 (ptr2 = NULL) at the first one that is not
RECURSIVE scan_digits(_, _)
scan_digits(buf, k) ==
    IF buf[k] = NUL THEN k
    ELSE IF Ord(buf[k]) < Ord("0") \/ Ord(buf[k]) > Ord("9") THEN 0
    ELSE scan_digits(buf, k + 1)

\* one turn of the function loop of mapinexports() for function f, number
\* n of the table; st holds the locals fname and imname.trunc, the import
\* comments and the log
map_func(f, n, mods, st) ==
    IF ~f.public THEN st
    ELSE IF f.name = NULL THEN st
    ELSE LET buf  == C(f.name)
             ptr  == strrchr(buf, "_")
             ptr2 == IF ptr = 0 THEN 0 ELSE scan_digits(buf, ptr + 1)
         IN IF ptr # 0 /\ ptr2 # 0
            THEN LET r == map_modules(mods, 1,
                              [name |-> [buf EXCEPT ![ptr] = NUL],
                               cmts |-> st.cmts, log |-> st.log, fi |-> n])
                 IN [fname |-> r.name, trunc |-> 1,
                     cmts |-> r.cmts, log |-> r.log]
            ELSE [st EXCEPT !.fname = buf, !.trunc = 0]

----------------------------------------------------------------------------
(* The inputs: files, the host's answers, the host's tables *)

\* d\a, d\b, and a (a path that holds no separator)
PathA == <<"d", "\\", "a">>
PathB == <<"d", "\\", "b">>
PathN == <<"a">>
Files == {PathA, PathB, PathN}

\* what load()'s host calls may answer
Hosts ==
    [fail : {"open", "build", "malloc", "import"}, nsegs : {1}]
        \cup [fail : {"none"}, nsegs : 1..MaxNewSegs]

\* comments a segment of the primary binary may carry before the first run:
\* none, "usr", and "\ndep=d\a\n" (long enough, not the prefix)
InitCmts ==
    {<< >>, <<"u", "s", "r">>,
     <<"\n", "d", "e", "p", "=", "d", "\\", "a", "\n">>}

\* the long repeatable comment the host leaves on imports after a load
Spam == <<"x">>

\* function names: Foo_123, Foo_12a, Foo, Foo_, Fo_7, _9, Foo_1:
FuncNames ==
    {<<"F", "o", "o", "_", "1", "2", "3">>,
     <<"F", "o", "o", "_", "1", "2", "a">>,
     <<"F", "o", "o">>,
     <<"F", "o", "o", "_">>,
     <<"F", "o", "_", "7">>,
     <<"_", "9">>,
     <<"F", "o", "o", "_", "1", ":">>}

\* the functions a table may hold: the public ones, one that is not
\* public, and one get_func_name gives no name for
FuncPool ==
    [name : FuncNames, public : {TRUE}]
        \cup {[name |-> <<"F", "o", "o", "_", "1", "2", "3">>,
               public |-> FALSE],
              [name |-> NULL, public |-> TRUE]}

FuncTables == UNION {[1..n -> FuncPool] : n \in 0..MaxFuncs}

\* import tables: module A holds an ordinal-only entry and Foo@4; module x
\* holds Fo, xFoo, FooBar
Table1 ==
    <<[mod  |-> C(<<"A">>),
       ents |-> <<[ea |-> 1, name |-> NULL],
                  [ea |-> 2, name |-> C(<<"F", "o", "o", "@", "4">>)]>>],
      [mod  |-> C(<<"x">>),
       ents |-> <<[ea |-> 3, name |-> C(<<"F", "o">>)],
                  [ea |-> 4, name |-> C(<<"x", "F", "o", "o">>)],
                  [ea |-> 5, name |-> C(<<"F", "o", "o", "B", "a", "r">>)]>>]>>

\* module b holds Foo, an ordinal-only entry, foo, Foo_123 and F
Table2 ==
    <<[mod  |-> C(<<"b">>),
       ents |-> <<[ea |-> 1, name |-> C(<<"F", "o", "o">>)],
                  [ea |-> 2, name |-> NULL],
                  [ea |-> 3, name |-> C(<<"f", "o", "o">>)],
                  [ea |-> 4,
                   name |-> C(<<"F", "o", "o", "_", "1", "2", "3">>)],
                  [ea |-> 5, name |-> C(<<"F">>)]>>]>>

ImportTables == {Table1, Table2}
EAs == 1..5

\* the tables of the session specification
SessionFuncs ==
    <<[name |-> <<"F", "o", "o", "_", "1", "2", "3">>, public |-> TRUE],
      [name |-> <<"F", "o", "o">>, public |-> TRUE]>>

----------------------------------------------------------------------------
(* History the claims are stated over *)

NoLoad ==
    [path |-> NULL, ret |-> 0, regBefore |-> << >>, segsBefore |-> << >>,
     ev |-> << >>]
NoRestore == [regBefore |-> << >>, ok |-> << >>]

\* the paths of reg2 not yet seen, appended in the order reg2 holds them
Observe(first, reg2) ==
    first \o SelectSeq(reg2, LAMBDA n : \A j \in 1..Len(first) : first[j] # n)

----------------------------------------------------------------------------
(* The state after the plugin is loaded *)

InitCommon ==
    /\ registry = << >>
    /\ depi = 0
    /\ fi = 0
    /\ fname = C(<< >>)
    /\ trunc = 0
    /\ written = {}
    /\ lastOp = "init"
    /\ lastLoad = NoLoad
    /\ lastRestore = NoRestore
    /\ firstReg = << >>
    /\ everLoaded = {}
    /\ segsrc = <<NULL>>

Init ==
    /\ InitCommon
    /\ segs \in {<<[name |-> <<".", "t">>, cmt |-> c]>> : c \in InitCmts}
    /\ cmts = [ea \in EAs |-> << >>]
    /\ funcs = SessionFuncs
    /\ imports = Table1
    /\ pc = "idle"

\* run() has reached clearcmts(); any function table, any import table
InitSweep ==
    /\ InitCommon
    /\ segs = <<[name |-> <<".", "t">>, cmt |-> << >>]>>
    /\ cmts = [ea \in EAs |-> Spam]
    /\ funcs \in FuncTables
    /\ imports \in ImportTables
    /\ pc = "clear"

----------------------------------------------------------------------------
(* run(), step by step *)

\* the restore loop over every segment
RunRestore ==
    /\ pc = "idle"
    /\ \E ok \in [1..Len(segs) -> BOOLEAN] :
         LET r == restore_loop([reg |-> registry, segs |-> segs], 1, ok)
         IN /\ registry' = r.reg
            /\ segs' = r.segs
            /\ lastRestore' = [regBefore |-> registry, ok |-> ok]
            /\ firstReg' = Observe(firstReg, r.reg)
    /\ pc' = "ask"
    /\ lastOp' = "restore"
    /\ lastLoad' = NoLoad
    /\ UNCHANGED <<cmts, funcs, imports, depi, fi, fname, trunc, written,
                   everLoaded, segsrc>>

\* Cancel at the first question, or at the folder form
RunCancel ==
    /\ pc = "ask"
    /\ pc' = "idle"
    /\ lastOp' = "cancel"
    /\ lastLoad' = NoLoad
    /\ lastRestore' = NoRestore
    /\ UNCHANGED <<registry, segs, cmts, funcs, imports, depi, fi, fname,
                   trunc, written, firstReg, everLoaded, segsrc>>

\* a call of load(filename) from run(), with the host's answers
DoLoad(filename, host) ==
    LET r == load(registry, segs, filename, host)
    IN /\ Len(r.segs) <= MaxSegs
       /\ registry' = r.reg
       /\ segs' = r.segs
       /\ cmts' = IF r.ret = 0 THEN [ea \in EAs |-> Spam] ELSE cmts
       /\ lastOp' = "load"
       /\ lastLoad' = [path |-> filename, ret |-> r.ret,
                       regBefore |-> registry, segsBefore |-> segs,
                       ev |-> r.ev]
       /\ lastRestore' = NoRestore
       /\ firstReg' = Observe(firstReg, r.reg)
       /\ everLoaded' = IF r.ret = 0 THEN everLoaded \cup {filename}
                        ELSE everLoaded
       /\ segsrc' = [i \in 1..Len(r.segs) |->
                       IF i <= Len(segs)
                       THEN IF r.segs[i].cmt # segs[i].cmt
                            THEN filename ELSE segsrc[i]
                       ELSE IF r.segs[i].cmt # << >>
                            THEN filename ELSE NULL]
       /\ UNCHANGED <<funcs, imports, fi, fname, trunc, written>>

\* "File": askfile_c gives a file, load(ptr)
RunLoadFile ==
    /\ pc = "ask"
    /\ \E p \in Files, host \in Hosts : DoLoad(C(p), host)
    /\ pc' = "clear"
    /\ depi' = depi

\* "File": askfile_c gives NULL
RunNoFile ==
    /\ pc = "ask"
    /\ pc' = "clear"
    /\ lastOp' = "nofile"
    /\ lastLoad' = NoLoad
    /\ lastRestore' = NoRestore
    /\ UNCHANGED <<registry, segs, cmts, funcs, imports, depi, fi, fname,
                   trunc, written, firstReg, everLoaded, segsrc>>

\* "Dependencies": the folder is given, the module loop starts
RunStartDeps ==
    /\ pc = "ask"
    /\ pc' = "deps"
    /\ depi' = 0
    /\ lastOp' = "deps"
    /\ lastLoad' = NoLoad
    /\ lastRestore' = NoRestore
    /\ UNCHANGED <<registry, segs, cmts, funcs, imports, fi, fname,
                   trunc, written, firstReg, everLoaded, segsrc>>

\* one turn of the module loop: no file matches the module
RunDepSkip ==
    /\ pc = "deps"
    /\ depi < Len(imports)
    /\ \A p \in Files : enumcb(C(p), imports[depi + 1].mod) = 0
    /\ depi' = depi + 1
    /\ pc' = pc
    /\ lastOp' = "depskip"
    /\ lastLoad' = NoLoad
    /\ lastRestore' = NoRestore
    /\ UNCHANGED <<registry, segs, cmts, funcs, imports, fi, fname,
                   trunc, written, firstReg, everLoaded, segsrc>>

\* one turn of the module loop: enumerate_files finds a file, load(buf2)
RunDepLoad ==
    /\ pc = "deps"
    /\ depi < Len(imports)
    /\ \E p \in Files, host \in Hosts :
         /\ enumcb(C(p), imports[depi + 1].mod) = 1
         /\ DoLoad(C(p), host)
    /\ depi' = depi + 1
    /\ pc' = pc

\* the module loop is over
RunDepsDone ==
    /\ pc = "deps"
    /\ depi = Len(imports)
    /\ pc' = "clear"
    /\ lastOp' = "depsdone"
    /\ lastLoad' = NoLoad
    /\ lastRestore' = NoRestore
    /\ UNCHANGED <<registry, segs, cmts, funcs, imports, depi, fi, fname,
                   trunc, written, firstReg, everLoaded, segsrc>>

\* clearcmts(), then listloaded() and autoWait(); mapinexports() starts
ClearCmts ==
    /\ pc = "clear"
    /\ cmts' = clearcmts(imports, 1, cmts)
    /\ pc' = "map"
    /\ fi' = 0
    /\ fname' = C(<< >>)
    /\ trunc' = 0
    /\ written' = {}
    /\ lastOp' = "clear"
    /\ lastLoad' = NoLoad
    /\ lastRestore' = NoRestore
    /\ UNCHANGED <<registry, segs, funcs, imports, depi, firstReg,
                   everLoaded, segsrc>>

\* one turn of the function loop of mapinexports()
MapFunc ==
    /\ pc = "map"
    /\ fi < Len(funcs)
    /\ LET r == map_func(funcs[fi + 1], fi + 1, imports,
                         [fname |-> fname, trunc |-> trunc,
                          cmts |-> cmts, log |-> written])
       IN /\ fname' = r.fname
          /\ trunc' = r.trunc
          /\ cmts' = r.cmts
          /\ written' = r.log
    /\ fi' = fi + 1
    /\ pc' = pc
    /\ lastOp' = "mapfunc"
    /\ UNCHANGED <<registry, segs, funcs, imports, depi, lastLoad,
                   lastRestore, firstReg, everLoaded, segsrc>>

\* mapinexports() returns, run() returns
MapDone ==
    /\ pc = "map"
    /\ fi = Len(funcs)
    /\ pc' = "idle"
    /\ lastOp' = "done"
    /\ UNCHANGED <<registry, segs, cmts, funcs, imports, depi, fi, fname,
                   trunc, written, lastLoad, lastRestore, firstReg,
                   everLoaded, segsrc>>

\* the plugin is unloaded (term() frees the nodes) and loaded again: the
\* list is empty again, the database keeps its segments and comments
Reopen ==
    /\ pc = "idle"
    /\ lastOp # "reopen"
    /\ registry' = << >>
    /\ firstReg' = << >>
    /\ lastOp' = "reopen"
    /\ lastLoad' = NoLoad
    /\ lastRestore' = NoRestore
    /\ UNCHANGED <<segs, cmts, funcs, imports, pc, depi, fi, fname, trunc,
                   written, everLoaded, segsrc>>

Next ==
    \/ RunRestore
    \/ RunCancel
    \/ RunLoadFile
    \/ RunNoFile
    \/ RunStartDeps
    \/ RunDepSkip
    \/ RunDepLoad
    \/ RunDepsDone
    \/ ClearCmts
    \/ MapFunc
    \/ MapDone
    \/ Reopen

Spec == Init /\ [][Next]_vars

NextSweep ==
    \/ ClearCmts
    \/ MapFunc
    \/ MapDone

SpecSweep == InitSweep /\ [][NextSweep]_vars

----------------------------------------------------------------------------
(* What the claims speak of, stated without the code's operators *)

Digits == {"0", "1", "2", "3", "4", "5", "6", "7", "8", "9"}

\* t is a prefix of s, character for character
IsPrefix(t, s) == Len(t) <= Len(s) /\ SubSeq(s, 1, Len(t)) = t

\* the place of the last underscore of a name, 0 when it has none
LastUnderscore(name) ==
    LET us == {k \in 1..Len(name) : name[k] = "_"}
    IN IF us = {} THEN 0 ELSE CHOOSE k \in us : \A j \in us : j <= k

\* the text before the last underscore
BaseOf(name) == SubSeq(name, 1, LastUnderscore(name) - 1)

\* an underscore, at least one character after the last one, digits only
IsCandidate(name) ==
    LET u == LastUnderscore(name)
    IN /\ u # 0
       /\ u < Len(name)
       /\ \A k \in (u + 1)..Len(name) : name[k] \in Digits

\* the text after the last path separator, the whole path without one
BaseName(path) ==
    LET ss == {k \in 1..Len(path) : path[k] \in {"\\", "/"}}
        l  == IF ss = {} THEN 0 ELSE CHOOSE k \in ss : \A j \in ss : j <= k
    IN SubSeq(path, l + 1, Len(path))

\* "\ndep: <path>\n"
ProvenanceOf(path) == DepPrefix \o path \o <<"\n">>

Count(ev, x) == Cardinality({i \in 1..Len(ev) : ev[i] = x})

InList(reg, node) == \E i \in 1..Len(reg) : reg[i] = node

\* the entries of an import table
Entries(mods) ==
    UNION {{mods[i].ents[k] : k \in 1..Len(mods[i].ents)} :
             i \in 1..Len(mods)}

\* the function loop of mapinexports() has run to its end
SweepOver == (pc = "map" /\ fi = Len(funcs)) \/ lastOp = "done"

\* the last step was a restore loop that started from an empty registry
FreshRestore == lastOp = "restore" /\ lastRestore.regBefore = << >>

\* the segments load() annotated from path p
Carrying(p) == {s \in 1..Len(segs) : segsrc[s] = p}

----------------------------------------------------------------------------
(* The claims *)

\* C1: when the path is registered, load() returns -2 before any other
\* step: no resource is taken, no segment name or comment changes, and the
\* registry is what it was.
C1_AlreadyLoadedFirst ==
    (lastOp = "load" /\ InList(lastLoad.regBefore, lastLoad.path))
        => /\ lastLoad.ret = -2
           /\ lastLoad.ev = << >>
           /\ registry = lastLoad.regBefore
           /\ segs = lastLoad.segsBefore

C1_Witness ==
    /\ lastOp = "load"
    /\ InList(lastLoad.regBefore, lastLoad.path)
    /\ lastLoad.ret = -2
    /\ Len(registry) >= 2
    /\ registry[2] = lastLoad.path

\* C2: a load() that returns -1, at whichever step, leaves the registry as
\* it was; the registry grows only in a load() that returns 0, after the
\* handles are released; and every registered path was the path of a
\* load() that returned 0 (in this session, or in an earlier one and then
\* restored).
C2_NoGhost ==
    /\ (lastOp = "load" /\ lastLoad.ret = -1)
          => registry = lastLoad.regBefore
    /\ (lastOp = "load" /\ registry # lastLoad.regBefore)
          => /\ lastLoad.ret = 0
             /\ lastLoad.ev[Len(lastLoad.ev)] = "link"
    /\ \A i \in 1..Len(registry) : registry[i] \in everLoaded

C2_Witness ==
    /\ lastOp = "load"
    /\ lastLoad.ret = -1
    /\ Count(lastLoad.ev, "malloc") = 1
    /\ Count(lastLoad.ev, "free") = 1
    /\ Len(registry) >= 1

\* C3: in every load(), the file handle and the loader list are each
\* released exactly once when taken and never otherwise, a release comes
\* after its acquisition, and the node allocated is either freed (registry
\* unchanged) or linked at the end of the registry.
C3_ReleasedOnce ==
    lastOp = "load" =>
        LET ev == lastLoad.ev
        IN /\ Count(ev, "open_linput") <= 1
           /\ Count(ev, "close_linput") = Count(ev, "open_linput")
           /\ Count(ev, "build_loaders_list") <= 1
           /\ Count(ev, "free_loaders_list") = Count(ev, "build_loaders_list")
           /\ Count(ev, "malloc") <= 1
           /\ Count(ev, "free") + Count(ev, "link") = Count(ev, "malloc")
           /\ \A i \in 1..Len(ev) :
                /\ ev[i] = "close_linput"
                     => \E j \in 1..(i - 1) : ev[j] = "open_linput"
                /\ ev[i] = "free_loaders_list"
                     => \E j \in 1..(i - 1) : ev[j] = "build_loaders_list"
                /\ ev[i] \in {"free", "link"}
                     => \E j \in 1..(i - 1) : ev[j] = "malloc"
           /\ Count(ev, "link") = 1
                => registry = Append(lastLoad.regBefore, lastLoad.path)
           /\ Count(ev, "link") = 0 => registry = lastLoad.regBefore

C3_Witness ==
    /\ lastOp = "load"
    /\ lastLoad.ret = -1
    /\ lastLoad.ev = <<"open_linput", "build_loaders_list",
                       "free_loaders_list", "close_linput">>

\* C4 (as claimed): a public function name is truncated exactly when it has
\* an underscore, at least one character after the last one, and only
\* digits after it; the name buffer then holds the text before the last
\* underscore.
C4_CandidateAsClaimed ==
    (lastOp = "mapfunc" /\ funcs[fi].public /\ funcs[fi].name # NULL)
        => /\ (trunc = 1) <=> IsCandidate(funcs[fi].name)
           /\ trunc = 1 => CStr(fname) = BaseOf(funcs[fi].name)

C6_AnnotatedAsClaimed ==
    SweepOver =>
        \A e \in Entries(imports) :
            (cmts[e.ea] # << >>)
                <=> /\ e.name # NULL
                    /\ \E n \in 1..Len(funcs) :
                         /\ funcs[n].public
                         /\ funcs[n].name # NULL
                         /\ IsCandidate(funcs[n].name)
                         /\ IsPrefix(BaseOf(funcs[n].name), CStr(e.name))

\* C7: the registry holds no path twice, and it is the list of the paths
\* in the order each was first registered (none changed, none removed).
C7_RegistryOrdered ==
    /\ \A i, j \in 1..Len(registry) :
         i # j => CStr(registry[i]) # CStr(registry[j])
    /\ registry = firstReg

C7_Witness ==
    /\ lastOp = "restore"
    /\ lastRestore.regBefore = registry
    /\ Len(registry) >= 1
    /\ \E s, t \in 1..Len(segs) :
         s # t /\ segsrc[s] # NULL /\ segsrc[s] = segsrc[t]

\* C8 (as claimed): after load() returns 0, the path is registered and
\* every segment that carried no provenance annotation before the call is
\* named by the file's base name and annotated "\ndep: <path>\n".
C8_AnnotatedAsClaimed ==
    (lastOp = "load" /\ lastLoad.ret = 0)
        => /\ InList(registry, lastLoad.path)
           /\ \A s \in 1..Len(segs) :
                (s > Len(lastLoad.segsBefore)
                   \/ ~IsPrefix(DepPrefix, lastLoad.segsBefore[s].cmt))
                  => /\ segs[s].name = BaseName(CStr(lastLoad.path))
                     /\ segs[s].cmt = ProvenanceOf(CStr(lastLoad.path))

C10_LastWriteWins ==
    (pc = "map" \/ lastOp = "done") =>
        \A ea \in EAs :
            LET ws == {w \in written : w.ea = ea}
            IN ws # {} =>
                 \E w \in ws :
                     /\ \A v \in ws : v.fi <= w.fi
                     /\ cmts[ea] = w.text

C10_Witness ==
    /\ lastOp = "done"
    /\ \E v, w \in written :
         /\ v.ea = w.ea
         /\ v.fi < w.fi
         /\ v.text # w.text
         /\ cmts[w.ea] = w.text

=============================================================================
